---- MODULE Spec2Model ----
(***************************************************************************)
(* Task Time Manager API (src/main.py, src/schemas.py).                    *)
(*                                                                         *)
(* The state is the two collections of the document store (db.task and     *)
(* db.timeentry, in the store's natural order), the wall clock, the last   *)
(* HTTP response, and the requests in flight.  One action per endpoint.    *)
(* The response is its status; a body is an operator of the state.         *)
(* Spec runs every request to completion, at one reading of the clock;     *)
(* SpecConc runs start, stop and delete one store operation at a time,     *)
(* and the clock may advance between the operations; SpecAny adds manual   *)
(* logs to it.  SpecTasks runs the task endpoints over a wider range of    *)
(* request bodies.                                                         *)
(*                                                                         *)
(* Scaling: an ObjectId string has 24 hex digits in the program and 2 in   *)
(* the model; datetimes are integers counting clock ticks, TicksPerSec of  *)
(* them to the second; a calendar day lasts SecPerDay seconds.             *)
(***************************************************************************)
EXTENDS Integers, Sequences, FiniteSets, TLC

VARIABLES task, timeentry, nTask, nEntry, now, resp, reqs

vars == <<task, timeentry, nTask, nEntry, now, resp, reqs>>

(* ------------------------------ bounds -------------------------------- *)

MaxTasks == 2
MaxEntries == 2
MaxTime == 2
TicksPerSec == 2
SecPerDay == 1
MaxReqs == 2

(* ------------------------------ values -------------------------------- *)

\* None / a present value v.
Null == <<>>
Some(v) == <<v>>
Val(o) == o[1]

HexDigits ==
  {"0", "1", "2", "3", "4", "5", "6", "7", "8", "9",
   "a", "b", "c", "d", "e", "f", "A", "B", "C", "D", "E", "F"}

ToLower(c) ==
  CASE c = "A" -> "a" [] c = "B" -> "b" [] c = "C" -> "c"
    [] c = "D" -> "d" [] c = "E" -> "e" [] c = "F" -> "f"
    [] OTHER -> c

\* bson ObjectId.is_valid on a str: the right length, hex digits only.
ObjectId_is_valid(id_str) ==
  /\ Len(id_str) = 2
  /\ \A i \in 1..Len(id_str) : id_str[i] \in HexDigits

\* bson ObjectId(id_str): the bytes the hex digits denote, in either case;
\* str() of it is lower-case hex, which is how an ObjectId is written here.
ObjectId(id_str) == [i \in 1..Len(id_str) |-> ToLower(id_str[i])]

\* The n-th identifier the store generates for a collection.
Letters == <<"a", "b", "c", "d", "e", "f">>
NewObjectId(kind, n) == <<Letters[n], kind>>

\* to_object_id: Some(ObjectId) or Null for HTTPException(400, "Invalid id").
to_object_id(id_str) ==
  IF ObjectId_is_valid(id_str) THEN Some(ObjectId(id_str)) ELSE Null

\* The path parameters requests are made with: the first task's id (which
\* names no task before the task is created and after it is deleted), the
\* same id in upper case, and a malformed id.
PathIds == {<<"a", "1">>, <<"A", "1">>, <<"z", "1">>}

DatetimeFields == {"start_time", "end_time", "created_at", "updated_at"}

isoformat(t) == <<"iso", t>>

\* serialize, of what find_one gave (Null or Some(doc)): None stays None;
\* "_id" becomes "id" (a string), datetimes become ISO strings.
serialize(found) ==
  IF found = Null THEN Null
  ELSE LET doc == Val(found)
       IN Some([k \in (DOMAIN doc \ {"_id"}) \cup {"id"} |->
                  IF k = "id" THEN doc["_id"]
                  ELSE IF k \in DatetimeFields /\ doc[k] # Null
                         THEN Some(isoformat(Val(doc[k])))
                         ELSE doc[k]])

\* [serialize(i) for i in items]
serialize_all(docs) == [i \in DOMAIN docs |-> serialize(Some(docs[i]))]

(* ------------------------------ the store ----------------------------- *)

\* A Mongo equality filter {field: value, ...} against a document.
Matches(doc, filter) ==
  \A k \in DOMAIN filter : k \in DOMAIN doc /\ doc[k] = filter[k]

RECURSIVE Select(_, _, _)
Select(collection, filter, i) ==
  IF i > Len(collection) THEN <<>>
  ELSE IF Matches(collection[i], filter)
         THEN <<collection[i]>> \o Select(collection, filter, i + 1)
         ELSE Select(collection, filter, i + 1)

RECURSIVE Reject(_, _, _)
Reject(collection, filter, i) ==
  IF i > Len(collection) THEN <<>>
  ELSE IF Matches(collection[i], filter)
         THEN Reject(collection, filter, i + 1)
         ELSE <<collection[i]>> \o Reject(collection, filter, i + 1)

\* create_document: insert_one of a model's fields under a fresh _id.
create_document(collection, oid, data) ==
  Append(collection, [_id |-> oid] @@ data)

\* collection.find(filter), in natural order.
get_documents(collection, filter) == Select(collection, filter, 1)

\* collection.find_one(filter): the first match, or None.
find_one(collection, filter) ==
  LET found == Select(collection, filter, 1)
  IN IF found = <<>> THEN Null ELSE Some(found[1])

\* collection.delete_many(filter).
delete_many(collection, filter) == Reject(collection, filter, 1)

\* Mutant: the first document, whatever the filter.
delete_one_any(collection, filter) ==
  IF collection = <<>> THEN collection ELSE Tail(collection)

\* collection.delete_one(filter): the first match only.
delete_one(collection, filter) ==
  LET hits == {i \in DOMAIN collection : Matches(collection[i], filter)}
  IN IF hits = {} THEN collection
     ELSE LET first == CHOOSE i \in hits : \A j \in hits : i <= j
          IN SubSeq(collection, 1, first - 1)
               \o SubSeq(collection, first + 1, Len(collection))

\* collection.update_many(filter, {"$set": fields}).
update_many(collection, filter, fields) ==
  [i \in DOMAIN collection |->
     IF Matches(collection[i], filter)
       THEN fields @@ collection[i] ELSE collection[i]]

\* collection.update_one(filter, {"$set": fields}): the first match only.
update_one(collection, filter, fields) ==
  LET hits == {i \in DOMAIN collection : Matches(collection[i], filter)}
  IN IF hits = {} THEN collection
     ELSE LET first == CHOOSE i \in hits : \A j \in hits : i <= j
          IN [collection EXCEPT ![first] = fields @@ collection[first]]

\* UpdateResult.matched_count of update_one.
matched_count(collection, filter) ==
  IF \E i \in DOMAIN collection : Matches(collection[i], filter) THEN 1 ELSE 0

(* ------------------------------ the clock ----------------------------- *)

\* int(timedelta.total_seconds()): truncation toward zero.
total_seconds_int(ticks) ==
  IF ticks >= 0 THEN ticks \div TicksPerSec ELSE -((-ticks) \div TicksPerSec)

\* datetime.date().isoformat(): the calendar day of an instant.
date_isoformat(t) == <<"day", t \div (TicksPerSec * SecPerDay)>>

(* ------------------------------ schemas ------------------------------- *)

\* schemas.Task(...): the document, or Null for pydantic's ValidationError.
Task(title, description, estimated_minutes, labels) ==
  IF estimated_minutes # Null /\ Val(estimated_minutes) < 0 THEN Null
  ELSE Some([title |-> title, description |-> description,
             status |-> "active", estimated_minutes |-> estimated_minutes,
             labels |-> labels])

\* Mutant: no ge=0 on duration_sec.
Timeentry_unchecked(task_id, start_time, end_time, duration_sec, note, is_running, date) ==
  Some([task_id |-> task_id, start_time |-> start_time,
        end_time |-> end_time, duration_sec |-> duration_sec,
        note |-> note, is_running |-> is_running, date |-> date])

\* schemas.Timeentry(...): the document, or Null for the ValidationError.
Timeentry(task_id, start_time, end_time, duration_sec, note, is_running, date) ==
  IF duration_sec # Null /\ Val(duration_sec) < 0 THEN Null
  ELSE Some([task_id |-> task_id, start_time |-> start_time,
             end_time |-> end_time, duration_sec |-> duration_sec,
             note |-> note, is_running |-> is_running, date |-> date])

(* ------------------------------ responses ----------------------------- *)

\* The last response: the endpoint, its path parameter and the HTTP status.
Response(op, id, status) == [op |-> op, id |-> id, status |-> status]

(* ------------------------------ inputs -------------------------------- *)

\* TaskCreate bodies.
TaskCreatePayloads ==
  {[title |-> "T", description |-> Null, estimated_minutes |-> e, labels |-> Null]
     : e \in {Null, Some(-1)}}

\* PATCH bodies: any JSON object.
UpdatePayloads == {[id |-> <<"b", "1">>, title |-> "U"]}

\* TimeEntryStart bodies.
StartPayloads == {[note |-> Some("n")]}

\* ManualLog bodies.
ManualLogPayloads ==
  {[duration_sec |-> d, note |-> Null, when |-> w]
     : d \in {-1, 0, 2}, w \in {Null, Some(MaxTime)}}

(* ------------------------------ task endpoints ------------------------ *)

\* create_task: the Task it builds.
create_task_doc(payload) ==
  Task(payload.title, payload.description, payload.estimated_minutes,
       IF payload.labels = Null \/ Val(payload.labels) = <<>>
         THEN <<>> ELSE Val(payload.labels))

\* POST /tasks; an uncaught ValidationError is answered 500.
create_task(payload) ==
  LET doc == create_task_doc(payload)
      oid == NewObjectId("1", nTask + 1)
  IN /\ nTask < MaxTasks
     /\ IF doc = Null
          THEN /\ resp' = Response("create_task", Null, 500)
               /\ UNCHANGED <<task, nTask>>
          ELSE /\ task' = create_document(task, oid, Val(doc))
               /\ nTask' = nTask + 1
               /\ resp' = Response("create_task", Null, 200)
     /\ UNCHANGED <<timeentry, nEntry, now, reqs>>

\* GET /tasks: the body.
list_tasks_body == serialize_all(get_documents(task, <<>>))

\* GET /tasks
list_tasks ==
  /\ resp' = Response("list_tasks", Null, 200)
  /\ UNCHANGED <<task, timeentry, nTask, nEntry, now, reqs>>

\* Mutant: the payload's "_id" and "id" are not popped.
update_task_set_keep_id(payload, t) ==
  [updated_at |-> Some(t)] @@ payload

\* update_task: the $set document.
update_task_set(payload, t) ==
  [updated_at |-> Some(t)]
    @@ [k \in DOMAIN payload \ {"_id", "id"} |-> payload[k]]

\* PATCH /tasks/{task_id}
update_task(task_id, payload) ==
  LET oid == to_object_id(task_id)
      filter == [_id |-> Val(oid)]
  IN /\ IF oid = Null
          THEN /\ resp' = Response("update_task", task_id, 400)
               /\ UNCHANGED task
          ELSE IF matched_count(task, filter) = 0
          THEN /\ resp' = Response("update_task", task_id, 404)
               /\ UNCHANGED task
          ELSE /\ resp' = Response("update_task", task_id, 200)
               /\ task' = update_one(task, filter, update_task_set(payload, now))
     /\ UNCHANGED <<timeentry, nTask, nEntry, now, reqs>>

\* Mutant: the cascade takes every entry of the task.
delete_task_cascade_all(collection, task_id) ==
  delete_many(collection, [task_id |-> task_id])

\* Mutant: the cascade takes the entries that are not running.
delete_task_cascade_stopped(collection, task_id) ==
  delete_many(collection, [task_id |-> task_id, is_running |-> FALSE])

\* delete_task: the cascade over the task's running entries.
delete_task_cascade(collection, task_id) ==
  delete_many(collection, [task_id |-> task_id, is_running |-> TRUE])

\* DELETE /tasks/{task_id}
delete_task(task_id) ==
  LET oid == to_object_id(task_id)
  IN /\ IF oid = Null
          THEN /\ resp' = Response("delete_task", task_id, 400)
               /\ UNCHANGED <<task, timeentry>>
          ELSE /\ resp' = Response("delete_task", task_id, 200)
               /\ task' = delete_one(task, [_id |-> Val(oid)])
               /\ timeentry' = delete_task_cascade(timeentry, task_id)
     /\ UNCHANGED <<nTask, nEntry, now, reqs>>

(* ------------------------------ time entries -------------------------- *)

\* Mutants of start_timer's update_many: the flag left set; no end_time;
\* nothing stopped.
start_timer_stop_flag(collection, task_id, t) ==
  update_many(collection, [task_id |-> task_id, is_running |-> TRUE],
              [end_time |-> Some(t)])

start_timer_stop_no_end(collection, task_id, t) ==
  update_many(collection, [task_id |-> task_id, is_running |-> TRUE],
              [is_running |-> FALSE])

start_timer_stop_none(collection, task_id, t) == collection

\* Mutant: the forced stop backfills duration_sec.
start_timer_stop_backfill(collection, task_id, t) ==
  [i \in DOMAIN collection |->
     IF Matches(collection[i], [task_id |-> task_id, is_running |-> TRUE])
       THEN [is_running |-> FALSE, end_time |-> Some(t),
             duration_sec |->
               Some(total_seconds_int(t - Val(collection[i].start_time)))]
              @@ collection[i]
       ELSE collection[i]]

\* start_timer, first store operation: stop any running timer of the task.
start_timer_stop(collection, task_id, t) ==
  update_many(collection, [task_id |-> task_id, is_running |-> TRUE],
              [is_running |-> FALSE, end_time |-> Some(t)])

\* Mutant: the new entry has no start_time.
start_timer_entry_no_start(task_id, t, payload) ==
  Timeentry(task_id, Null, Null, Null, payload.note, TRUE, Null)

\* start_timer, the entry it builds.
start_timer_entry(task_id, t, payload) ==
  Timeentry(task_id, Some(t), Null, Null, payload.note, TRUE, Null)

\* POST /tasks/{task_id}/timer/start
start_timer(task_id, payload) ==
  LET stopped == start_timer_stop(timeentry, task_id, now)
      entry == start_timer_entry(task_id, now, payload)
      oid == NewObjectId("2", nEntry + 1)
  IN /\ nEntry < MaxEntries
     /\ resp' = Response("start_timer", task_id, 200)
     /\ nEntry' = nEntry + 1
     /\ timeentry' = create_document(stopped, oid, Val(entry))
     /\ UNCHANGED <<task, nTask, now, reqs>>

\* Mutant: any entry of the task, running or not.
stop_timer_running_any(collection, task_id) ==
  find_one(collection, [task_id |-> task_id])

\* stop_timer: the entry it reads.
stop_timer_running(collection, task_id) ==
  find_one(collection, [task_id |-> task_id, is_running |-> TRUE])

\* Mutant: the duration in clock ticks, not in seconds.
stop_timer_duration_ticks(start_time, end_time) == end_time - start_time

\* Mutant: the seconds rounded up.
stop_timer_duration_up(start_time, end_time) ==
  total_seconds_int(end_time - start_time + TicksPerSec - 1)

\* stop_timer: the duration it computes.
stop_timer_duration(start_time, end_time) ==
  total_seconds_int(end_time - start_time)

\* Mutant: the update addresses the running entries of the task, not the
\* entry that was read.
stop_timer_update_by_task(collection, running, end_time, t) ==
  update_many(collection, [task_id |-> running.task_id, is_running |-> TRUE],
              [is_running |-> FALSE, end_time |-> Some(end_time),
               duration_sec |->
                 Some(stop_timer_duration(Val(running.start_time), end_time)),
               updated_at |-> Some(t)])

\* stop_timer: the update of the entry it read.
stop_timer_update(collection, running, end_time, t) ==
  update_one(collection, [_id |-> running["_id"]],
             [is_running |-> FALSE, end_time |-> Some(end_time),
              duration_sec |->
                Some(stop_timer_duration(Val(running.start_time), end_time)),
              updated_at |-> Some(t)])

\* POST /tasks/{task_id}/timer/stop
stop_timer(task_id) ==
  LET running == stop_timer_running(timeentry, task_id)
  IN /\ IF running = Null
          THEN /\ resp' = Response("stop_timer", task_id, 400)
               /\ UNCHANGED timeentry
          ELSE IF Val(running).start_time = Null
          THEN /\ resp' = Response("stop_timer", task_id, 500)
               /\ UNCHANGED timeentry
          ELSE /\ resp' = Response("stop_timer", task_id, 200)
               /\ timeentry' = stop_timer_update(timeentry, Val(running), now, now)
     /\ UNCHANGED <<task, nTask, nEntry, now, reqs>>

\* Mutant: the date of the request, whatever `when` says.
manual_log_entry_today(task_id, payload, t) ==
  Timeentry(task_id, Null, Null, Some(payload.duration_sec), payload.note,
            FALSE, Some(date_isoformat(t)))

\* manual_log: the entry it builds.
manual_log_entry(task_id, payload, t) ==
  LET when == IF payload.when # Null THEN Val(payload.when) ELSE t
  IN Timeentry(task_id, Null, Null, Some(payload.duration_sec), payload.note,
               FALSE, Some(date_isoformat(when)))

\* POST /tasks/{task_id}/log; an uncaught ValidationError is answered 500.
manual_log(task_id, payload) ==
  LET entry == manual_log_entry(task_id, payload, now)
      oid == NewObjectId("2", nEntry + 1)
  IN /\ nEntry < MaxEntries
     /\ IF entry = Null
          THEN /\ resp' = Response("manual_log", task_id, 500)
               /\ UNCHANGED <<timeentry, nEntry>>
          ELSE /\ resp' = Response("manual_log", task_id, 200)
               /\ nEntry' = nEntry + 1
               /\ timeentry' = create_document(timeentry, oid, Val(entry))
     /\ UNCHANGED <<task, nTask, now, reqs>>

\* GET /tasks/{task_id}/time: the body.
list_time_entries_body(task_id) ==
  serialize_all(get_documents(timeentry, [task_id |-> task_id]))

\* GET /tasks/{task_id}/time
list_time_entries(task_id) ==
  /\ resp' = Response("list_time_entries", task_id, 200)
  /\ UNCHANGED <<task, timeentry, nTask, nEntry, now, reqs>>

(* ------------------------------ report -------------------------------- *)

\* The $match/$group pipeline: per task_id, the sum of the non-null
\* duration_sec, one row per task_id.
RECURSIVE aggregate(_, _, _)
aggregate(collection, i, rows) ==
  IF i > Len(collection) THEN rows
  ELSE LET e == collection[i]
           hit == {j \in DOMAIN rows : rows[j]["_id"] = e.task_id}
       IN IF e.duration_sec = Null THEN aggregate(collection, i + 1, rows)
          ELSE IF hit = {}
            THEN aggregate(collection, i + 1,
                   Append(rows, [_id |-> e.task_id,
                                 total_sec |-> Val(e.duration_sec)]))
            ELSE LET j == CHOOSE j \in hit : TRUE
                 IN aggregate(collection, i + 1,
                      [rows EXCEPT ![j].total_sec = @ + Val(e.duration_sec)])

\* Mutant: the task looked up by the stored string, not by its ObjectId.
summary_task_by_str(task_id) == find_one(task, [_id |-> task_id])

\* db.task.find_one({"_id": ObjectId(task_id)}) if ObjectId.is_valid(task_id).
summary_task(task_id) ==
  IF ObjectId_is_valid(task_id)
    THEN find_one(task, [_id |-> ObjectId(task_id)]) ELSE Null

\* The title of an aggregated row: the task's, else task_map's, else the default.
summary_row_title(task_id) ==
  LET found == summary_task(task_id)
      mapped == find_one(task, [_id |-> task_id])
  IN IF found # Null THEN Val(found).title
     ELSE IF mapped # Null THEN Val(mapped).title ELSE "Unknown Task"

\* The title of a group created for a running entry.
summary_running_title(task_id) ==
  LET found == summary_task(task_id)
  IN IF found # Null THEN Val(found).title ELSE "Unknown Task"

RECURSIVE summary_rows(_, _)
summary_rows(rows, i) ==
  IF i > Len(rows) THEN <<>>
  ELSE <<[task_id |-> rows[i]["_id"],
          title |-> summary_row_title(rows[i]["_id"]),
          total_sec |-> rows[i].total_sec]>> \o summary_rows(rows, i + 1)

\* Mutant: running timers left out of the report.
summary_inc_none(e, t) == 0

\* The live seconds of a running entry at time t.
summary_inc(e, t) ==
  IF e.start_time # Null THEN total_seconds_int(t - Val(e.start_time)) ELSE 0

\* Mutant: every running entry gets an item of its own.
RECURSIVE summary_running_append(_, _, _, _)
summary_running_append(running_entries, i, data, t) ==
  IF i > Len(running_entries) THEN data
  ELSE LET e == running_entries[i]
       IN summary_running_append(running_entries, i + 1,
            Append(data, [task_id |-> e.task_id,
                          title |-> summary_running_title(e.task_id),
                          total_sec |-> summary_inc(e, t)]), t)

\* The loop over the running entries: add to the first item of the task, or
\* append a new item.
RECURSIVE summary_running(_, _, _, _)
summary_running(running_entries, i, data, t) ==
  IF i > Len(running_entries) THEN data
  ELSE LET e == running_entries[i]
           inc == summary_inc(e, t)
           hit == {j \in DOMAIN data : data[j].task_id = e.task_id}
       IN IF hit # {}
            THEN LET found == CHOOSE j \in hit : \A k \in hit : j <= k
                 IN summary_running(running_entries, i + 1,
                      [data EXCEPT ![found].total_sec = @ + inc], t)
            ELSE summary_running(running_entries, i + 1,
                   Append(data, [task_id |-> e.task_id,
                                 title |-> summary_running_title(e.task_id),
                                 total_sec |-> inc]), t)

\* report_summary over the time entries it reads, at clock reading t.
summary_items(collection, t) ==
  summary_running(get_documents(collection, [is_running |-> TRUE]), 1,
                  summary_rows(aggregate(collection, 1, <<>>), 1), t)

\* GET /reports/summary: the items, at clock reading t.
report_summary_items(t) == summary_items(timeentry, t)

\* GET /reports/summary
report_summary ==
  /\ resp' = Response("report_summary", Null, 200)
  /\ UNCHANGED <<task, timeentry, nTask, nEntry, now, reqs>>

(* ------------------------------ specification ------------------------- *)

\* Time passes between requests.
Tick ==
  /\ now < MaxTime
  /\ now' = now + 1
  /\ UNCHANGED <<task, timeentry, nTask, nEntry, resp, reqs>>

Init ==
  /\ task = <<>>
  /\ timeentry = <<>>
  /\ nTask = 0
  /\ nEntry = 0
  /\ now = 0
  /\ resp = Response("none", Null, 0)
  /\ reqs = <<>>

Next ==
  \/ \E p \in TaskCreatePayloads : create_task(p)
  \/ list_tasks
  \/ \E id \in PathIds, p \in UpdatePayloads : update_task(id, p)
  \/ \E id \in PathIds : delete_task(id)
  \/ \E id \in PathIds, p \in StartPayloads : start_timer(id, p)
  \/ \E id \in PathIds : stop_timer(id)
  \/ \E id \in PathIds, p \in ManualLogPayloads : manual_log(id, p)
  \/ \E id \in PathIds : list_time_entries(id)
  \/ report_summary
  \/ Tick

Spec == Init /\ [][Next]_vars

(* ------------------------------ interleaved requests ----------------- *)

\* A request between its two store operations; `running` is what stop read.
Request(op, id, payload, running) ==
  [op |-> op, id |-> id, payload |-> payload, running |-> running]

RemoveAt(s, k) == SubSeq(s, 1, k - 1) \o SubSeq(s, k + 1, Len(s))

\* The entries that the starts in flight are still to insert.
Inserting == Cardinality({k \in DOMAIN reqs : reqs[k].op = "start_timer"})

\* start_timer up to its update_many.
start_timer_1(task_id, payload) ==
  /\ Len(reqs) < MaxReqs
  /\ nEntry + Inserting < MaxEntries
  /\ timeentry' = start_timer_stop(timeentry, task_id, now)
  /\ reqs' = Append(reqs, Request("start_timer", task_id, payload, Null))
  /\ UNCHANGED <<task, nTask, nEntry, now, resp>>

\* start_timer from its second datetime.now() on: the insert.
start_timer_2(k) ==
  LET r == reqs[k]
      entry == start_timer_entry(r.id, now, r.payload)
      oid == NewObjectId("2", nEntry + 1)
  IN /\ r.op = "start_timer"
     /\ timeentry' = create_document(timeentry, oid, Val(entry))
     /\ nEntry' = nEntry + 1
     /\ resp' = Response("start_timer", r.id, 200)
     /\ reqs' = RemoveAt(reqs, k)
     /\ UNCHANGED <<task, nTask, now>>

\* stop_timer up to its find_one and the checks of what it found.
stop_timer_1(task_id) ==
  LET running == stop_timer_running(timeentry, task_id)
  IN /\ Len(reqs) < MaxReqs
     /\ IF running = Null
          THEN /\ resp' = Response("stop_timer", task_id, 400)
               /\ UNCHANGED reqs
          ELSE IF Val(running).start_time = Null
          THEN /\ resp' = Response("stop_timer", task_id, 500)
               /\ UNCHANGED reqs
          ELSE /\ reqs' = Append(reqs, Request("stop_timer", task_id, Null, running))
               /\ UNCHANGED resp
     /\ UNCHANGED <<task, timeentry, nTask, nEntry, now>>

\* stop_timer from its datetime.now() on: the update_one by _id.
stop_timer_2(k) ==
  LET r == reqs[k]
  IN /\ r.op = "stop_timer"
     /\ timeentry' = stop_timer_update(timeentry, Val(r.running), now, now)
     /\ resp' = Response("stop_timer", r.id, 200)
     /\ reqs' = RemoveAt(reqs, k)
     /\ UNCHANGED <<task, nTask, nEntry, now>>

\* delete_task up to its delete_one.
delete_task_1(task_id) ==
  LET oid == to_object_id(task_id)
  IN /\ Len(reqs) < MaxReqs
     /\ IF oid = Null
          THEN /\ resp' = Response("delete_task", task_id, 400)
               /\ UNCHANGED <<task, reqs>>
          ELSE /\ task' = delete_one(task, [_id |-> Val(oid)])
               /\ reqs' = Append(reqs, Request("delete_task", task_id, Null, Null))
               /\ UNCHANGED resp
     /\ UNCHANGED <<timeentry, nTask, nEntry, now>>

\* delete_task: its delete_many.
delete_task_2(k) ==
  LET r == reqs[k]
  IN /\ r.op = "delete_task"
     /\ timeentry' = delete_task_cascade(timeentry, r.id)
     /\ resp' = Response("delete_task", r.id, 200)
     /\ reqs' = RemoveAt(reqs, k)
     /\ UNCHANGED <<task, nTask, nEntry, now>>

\* The path parameters of the interleaved requests: a task and a malformed id.
ConcIds == {<<"a", "1">>, <<"z", "1">>}

NextConc ==
  \/ \E id \in ConcIds, p \in StartPayloads : start_timer_1(id, p)
  \/ \E k \in DOMAIN reqs : start_timer_2(k)
  \/ \E id \in ConcIds : stop_timer_1(id)
  \/ \E k \in DOMAIN reqs : stop_timer_2(k)
  \/ \E id \in ConcIds : delete_task_1(id)
  \/ \E k \in DOMAIN reqs : delete_task_2(k)
  \/ \E p \in TaskCreatePayloads : create_task(p)
  \/ Tick

SpecConc == Init /\ [][NextConc]_vars

\* Manual logs beside the interleaved requests: a refused body and an
\* accepted one, against the task the timers run on.
ConcLogPayloads ==
  {p \in ManualLogPayloads : p.when # Null /\ p.duration_sec # 0}

\* Every endpoint that writes db.timeentry, one store operation at a time
\* (manual_log has one), in any order.
NextAny ==
  \/ NextConc
  \/ \E p \in ConcLogPayloads : manual_log(<<"a", "1">>, p)

SpecAny == Init /\ [][NextAny]_vars

(* ------------------------------ the task registry -------------------- *)

\* TaskCreate bodies: a plain one, one with an empty title, one with a
\* negative estimated_minutes, one with every field given.
TaskCreateBodies ==
  {[title |-> "T", description |-> Null, estimated_minutes |-> Null, labels |-> Null],
   [title |-> "", description |-> Null, estimated_minutes |-> Null, labels |-> Null],
   [title |-> "T", description |-> Null, estimated_minutes |-> Some(-1), labels |-> Null],
   [title |-> "T", description |-> Some("d"), estimated_minutes |-> Some(0),
    labels |-> Some(<<"a", "b">>)]}

\* PATCH bodies that name another task's id, under the key "id" and under
\* the key "_id"; the second supplies its own updated_at.
UpdateBodies ==
  {[id |-> <<"b", "1">>, title |-> "U"],
   [_id |-> <<"b", "1">>, labels |-> <<"c">>, updated_at |-> Null]}

\* The task endpoints over these bodies, next to timers that start.
NextTasks ==
  \/ \E p \in TaskCreateBodies : create_task(p)
  \/ list_tasks
  \/ \E id \in PathIds, p \in UpdateBodies : update_task(id, p)
  \/ \E id \in PathIds : delete_task(id)
  \/ \E id \in ConcIds, p \in StartPayloads : start_timer(id, p)
  \/ Tick

SpecTasks == Init /\ [][NextTasks]_vars

(* ------------------------------ properties ---------------------------- *)

\* The positions of the running entries of a task_id in a collection.
RunningOf(collection, id) ==
  {i \in DOMAIN collection :
     collection[i].task_id = id /\ collection[i].is_running}

\* The entry of a collection with a given _id, as a set of at most one.
EntryById(collection, oid) ==
  {collection[i] : i \in {j \in DOMAIN collection : collection[j]["_id"] = oid}}

TaskIds == {timeentry[i].task_id : i \in DOMAIN timeentry}

\* floor(ticks / TicksPerSec) for ticks >= 0.
FloorSec(ticks) ==
  CHOOSE q \in 0..ticks : q * TicksPerSec <= ticks /\ ticks < (q + 1) * TicksPerSec

RECURSIVE Sum(_, _)
Sum(f, S) ==
  IF S = {} THEN 0
  ELSE LET x == CHOOSE x \in S : TRUE IN f[x] + Sum(f, S \ {x})

\* C1: with requests run to completion, in every reachable state every
\* task_id has at most one TimeEntry with is_running = true.
C1_AtMostOneRunning ==
  \A id \in TaskIds : Cardinality(RunningOf(timeentry, id)) <= 1

\* A task_id has a running entry next to an entry that a later start stopped.
C1_Witness ==
  \E i, j \in DOMAIN timeentry :
    /\ i < j
    /\ timeentry[i].task_id = timeentry[j].task_id
    /\ timeentry[j].is_running
    /\ ~timeentry[i].is_running
    /\ timeentry[i].start_time # Null

\* C2: a start(T) that follows a start(T) leaves exactly one running entry
\* of T, the new one (start_time the time of the second start, end_time and
\* duration_sec null), and the first start's entry stopped with end_time set.
C2_StartAfterStart ==
  [][\A id \in PathIds, p \in StartPayloads :
       (start_timer(id, p) /\ resp = Response("start_timer", id, 200)
          /\ timeentry # <<>>)
       => LET first == timeentry[Len(timeentry)]
              second == timeentry'[Len(timeentry')]
          IN /\ RunningOf(timeentry', id) = {Len(timeentry')}
             /\ second["_id"] # first["_id"]
             /\ second.task_id = id
             /\ second.start_time = Some(now')
             /\ second.end_time = Null
             /\ second.duration_sec = Null
             /\ \A e \in EntryById(timeentry', first["_id"]) :
                  ~e.is_running /\ e.end_time # Null
             /\ EntryById(timeentry', first["_id"]) # {}]_vars

\* Two starts of the same task in a row have been answered.
C2_Witness ==
  /\ resp.op = "start_timer"
  /\ Len(timeentry) = 2
  /\ timeentry[1].task_id = resp.id /\ timeentry[2].task_id = resp.id
  /\ timeentry[2].is_running /\ timeentry[2].start_time = Some(now)
  /\ ~timeentry[1].is_running /\ timeentry[1].end_time # Null
  /\ timeentry[1].duration_sec = Null
  /\ timeentry[1].start_time # timeentry[2].start_time

\* C3: stop(T) with no running entry of T is answered 400 and leaves both
\* collections as they were.
C3_StopWithoutTimer ==
  [][\A id \in PathIds :
       (stop_timer(id) /\ RunningOf(timeentry, id) = {})
       => resp'.status = 400 /\ task' = task /\ timeentry' = timeentry]_vars

\* A stop was refused although the task has entries.
C3_Witness ==
  /\ resp.op = "stop_timer" /\ resp.status = 400
  /\ \E i \in DOMAIN timeentry : timeentry[i].task_id = resp.id

\* C4: stop(T) at t1 of the timer started at t0 <= t1 gives the entry
\* duration_sec = floor(t1 - t0), end_time = t1, is_running = false, and
\* leaves T without a running entry.
C4_StopDuration ==
  [][\A id \in PathIds :
       (stop_timer(id) /\ RunningOf(timeentry, id) # {})
       => \A i \in RunningOf(timeentry, id) :
            LET t0 == Val(timeentry[i].start_time)
                e == timeentry'[i]
            IN /\ t0 <= now
               /\ e["_id"] = timeentry[i]["_id"]
               /\ e.duration_sec = Some(FloorSec(now - t0))
               /\ e.end_time = Some(now)
               /\ ~e.is_running
               /\ RunningOf(timeentry', id) = {}
               /\ resp'.status = 200]_vars

\* A timer was stopped a fraction of a second after its start.
C4_Witness ==
  /\ resp.op = "stop_timer" /\ resp.status = 200
  /\ \E i \in DOMAIN timeentry :
       /\ timeentry[i].task_id = resp.id
       /\ timeentry[i].end_time = Some(now)
       /\ timeentry[i].start_time # Null
       /\ now - Val(timeentry[i].start_time) = 1
       /\ timeentry[i].duration_sec = Some(0)

\* The seconds of a task_id the report owes at time t: its recorded
\* durations, plus the elapsed seconds of its running entries.
OwedSec(id, t) ==
  LET recorded == {i \in DOMAIN timeentry :
                     timeentry[i].task_id = id /\ timeentry[i].duration_sec # Null}
      live == RunningOf(timeentry, id)
  IN Sum([i \in recorded |-> Val(timeentry[i].duration_sec)], recorded)
       + Sum([i \in live |->
                IF timeentry[i].start_time = Null THEN 0
                ELSE FloorSec(t - Val(timeentry[i].start_time))], live)

ReportedIds ==
  {id \in TaskIds :
     \E i \in DOMAIN timeentry :
       /\ timeentry[i].task_id = id
       /\ timeentry[i].duration_sec # Null \/ timeentry[i].is_running}

\* C5: summary() gives every task_id with a recorded duration or a running
\* entry a total_sec of its recorded durations plus the elapsed seconds of
\* its running entries.
C5_SummaryTotals ==
  LET items == report_summary_items(now)
  IN \A id \in ReportedIds :
       /\ \E j \in DOMAIN items : items[j].task_id = id
       /\ \A j \in DOMAIN items :
            items[j].task_id = id => items[j].total_sec = OwedSec(id, now)

\* A task_id with a recorded duration and a timer that has run a second.
C5_Witness ==
  \E i, j \in DOMAIN timeentry :
    /\ timeentry[i].task_id = timeentry[j].task_id
    /\ timeentry[i].duration_sec = Some(2)
    /\ timeentry[j].is_running
    /\ now - Val(timeentry[j].start_time) = TicksPerSec
    /\ \E k \in DOMAIN report_summary_items(now) :
         /\ report_summary_items(now)[k].task_id = timeentry[i].task_id
         /\ report_summary_items(now)[k].total_sec = 3

\* C6: deleteTask(T) removes task T and the running entries of T, and leaves
\* the other entries of T, the entries of other task_ids and the other
\* tasks as they were; listing T's entries returns the retained ones.
C6_DeleteCascade ==
  [][\A id \in PathIds :
       (ObjectId_is_valid(id) /\ delete_task(id))
       => LET kept == {i \in DOMAIN timeentry :
                         ~(timeentry[i].task_id = id /\ timeentry[i].is_running)}
              others == {i \in DOMAIN task : task[i]["_id"] # ObjectId(id)}
              mine == {i \in kept : timeentry[i].task_id = id}
              listed == list_time_entries_body(id)'
          IN /\ \A i \in DOMAIN task' : task'[i]["_id"] # ObjectId(id)
             /\ \A i \in DOMAIN timeentry' :
                  ~(timeentry'[i].task_id = id /\ timeentry'[i].is_running)
             /\ Len(timeentry') = Cardinality(kept)
             /\ \A i \in kept : \E j \in DOMAIN timeentry' :
                  timeentry'[j] = timeentry[i]
             /\ Len(task') = Cardinality(others)
             /\ \A i \in others : \E j \in DOMAIN task' : task'[j] = task[i]
             /\ \A i \in mine : \E j \in DOMAIN listed :
                  listed[j] = serialize(Some(timeentry[i]))
             /\ resp'.status = 200]_vars

\* A task was deleted with a running entry; a stopped entry of it and
\* another task remain.
C6_Witness ==
  /\ resp.op = "delete_task" /\ resp.status = 200
  /\ Len(task) = 1 /\ nTask = 2
  /\ Len(timeentry) = 1 /\ nEntry = 2
  /\ timeentry[1].task_id = resp.id
  /\ ~timeentry[1].is_running

\* C9: logManual inserts one entry that is not running, has no start_time
\* and no end_time, has the given duration_sec and the date of `when` (of
\* now without one), and changes no other entry.
C9_ManualLog ==
  [][\A id \in PathIds, p \in ManualLogPayloads :
       (manual_log(id, p) /\ p.duration_sec >= 0)
       => LET e == timeentry'[Len(timeentry')]
              when == IF p.when = Null THEN now ELSE Val(p.when)
          IN /\ Len(timeentry') = Len(timeentry) + 1
             /\ SubSeq(timeentry', 1, Len(timeentry)) = timeentry
             /\ \A i \in DOMAIN timeentry : e["_id"] # timeentry[i]["_id"]
             /\ e.task_id = id
             /\ ~e.is_running
             /\ e.start_time = Null /\ e.end_time = Null
             /\ e.duration_sec = Some(p.duration_sec)
             /\ \E day \in 0..MaxTime :
                  /\ day * TicksPerSec * SecPerDay <= when
                  /\ when < (day + 1) * TicksPerSec * SecPerDay
                  /\ e.date = Some(<<"day", day>>)
             /\ \A t \in PathIds : RunningOf(timeentry', t) = RunningOf(timeentry, t)
             /\ task' = task]_vars

\* A manual log dated another day than today, beside the task's running timer.
C9_Witness ==
  /\ resp.op = "manual_log" /\ resp.status = 200
  /\ Len(timeentry) = 2
  /\ timeentry[1].task_id = resp.id /\ timeentry[1].is_running
  /\ timeentry[2].task_id = resp.id /\ timeentry[2].duration_sec = Some(2)
  /\ timeentry[2].date # Some(date_isoformat(now))

NonNegativeDurations ==
  \A i \in DOMAIN timeentry :
    timeentry[i].duration_sec = Null \/ Val(timeentry[i].duration_sec) >= 0

\* C10: logManual with a negative duration_sec fails and stores nothing;
\* every stored entry has a null or non-negative duration_sec.
C10_NoNegativeDuration ==
  /\ []NonNegativeDurations
  /\ [][\A id \in PathIds, p \in ManualLogPayloads :
          (manual_log(id, p) /\ p.duration_sec < 0)
          => resp'.status >= 400 /\ timeentry' = timeentry /\ task' = task]_vars

\* A manual log with a negative duration was refused.
C10_Witness ==
  /\ resp.op = "manual_log" /\ resp.status = 500
  /\ timeentry # <<>>

\* C8: a malformed id on any {id}-scoped endpoint is answered 400 and
\* changes nothing in the store.
C8_MalformedId ==
  [][\A id \in PathIds :
       (/\ ~ObjectId_is_valid(id)
        /\ \/ \E p \in UpdatePayloads : update_task(id, p)
           \/ delete_task(id)
           \/ \E p \in StartPayloads : start_timer(id, p)
           \/ stop_timer(id)
           \/ \E p \in ManualLogPayloads : manual_log(id, p)
           \/ list_time_entries(id))
       => resp'.status = 400 /\ task' = task /\ timeentry' = timeentry]_vars

\* No two starts of the same task_id are in flight together.
StartsSerialized ==
  \A i, j \in DOMAIN reqs :
    (i # j /\ reqs[i].op = "start_timer" /\ reqs[j].op = "start_timer")
    => reqs[i].id # reqs[j].id

TaskOf(collection, id) ==
  {i \in DOMAIN collection :
     ObjectId_is_valid(id) /\ collection[i]["_id"] = ObjectId(id)}

\* C11: updateTask on a well-formed id that names no task is answered 404
\* and changes nothing; on an existing task it sets the supplied fields and
\* updated_at = now (whatever updated_at the payload carries), keeps the
\* task's id whatever "id" or "_id" the payload carries, and leaves the
\* task's other fields and every other document as they were.
C11_UpdateTask ==
  [][resp'.op = "update_task" =>
     \A id \in PathIds, p \in UpdateBodies :
       (ObjectId_is_valid(id) /\ update_task(id, p))
       => LET hit == TaskOf(task, id)
              supplied == DOMAIN p \ {"_id", "id", "updated_at"}
          IN /\ timeentry' = timeentry
             /\ Len(task') = Len(task)
             /\ \A i \in DOMAIN task \ hit : task'[i] = task[i]
             /\ hit = {} => resp'.status = 404 /\ task' = task
             /\ \A i \in hit :
                  /\ resp'.status = 200
                  /\ task'[i]["_id"] = task[i]["_id"]
                  /\ DOMAIN task'[i] = DOMAIN task[i] \cup supplied \cup {"updated_at"}
                  /\ \A k \in supplied : task'[i][k] = p[k]
                  /\ task'[i].updated_at = Some(now)
                  /\ \A k \in DOMAIN task[i] \ (supplied \cup {"updated_at"}) :
                       task'[i][k] = task[i][k]
                  /\ "id" \notin DOMAIN task'[i]]_vars

\* The first of two tasks was retitled by a PATCH; the second task and a
\* time entry are in the store.
C11_Witness ==
  /\ resp.op = "update_task" /\ resp.status = 200
  /\ Len(task) = 2 /\ timeentry # <<>>
  /\ task[1].title = "U" /\ task[1].updated_at = Some(now)
  /\ task[1]["_id"] = ObjectId(resp.id)
  /\ task[2].title = "T"

\* C12: createTask fails and persists no task when the title is empty or
\* estimated_minutes is present and negative; otherwise it persists exactly
\* one new task, with status "active" and with labels = [] when labels were
\* omitted.
C12_CreateTask ==
  [][resp'.op = "create_task" =>
     \A p \in TaskCreateBodies :
       create_task(p)
       => IF \/ p.title = ""
             \/ p.estimated_minutes # Null /\ Val(p.estimated_minutes) < 0
            THEN resp'.status >= 400 /\ task' = task
            ELSE LET new == task'[Len(task')]
                 IN /\ resp'.status = 200
                    /\ Len(task') = Len(task) + 1
                    /\ SubSeq(task', 1, Len(task)) = task
                    /\ \A i \in DOMAIN task : new["_id"] # task[i]["_id"]
                    /\ new.title = p.title
                    /\ new.status = "active"
                    /\ p.labels = Null => new.labels = <<>>
                    /\ p.labels # Null => new.labels = Val(p.labels)]_vars

\* C13: deleteTask of a well-formed id that names no task succeeds and
\* leaves the tasks as they were; a deleteTask that directly follows a
\* deleteTask of the same id changes nothing, and after any deleteTask the
\* store is one that a further deleteTask of the id would leave as it is.
C13_DeleteIdempotent ==
  [][resp'.op = "delete_task" =>
     \A id \in PathIds :
       (ObjectId_is_valid(id) /\ delete_task(id))
       => /\ resp'.status = 200
          /\ TaskOf(task, id) = {} => task' = task
          /\ resp = Response("delete_task", id, 200)
               => task' = task /\ timeentry' = timeentry
          /\ delete_one(task', [_id |-> ObjectId(id)]) = task'
          /\ delete_task_cascade(timeentry', id) = timeentry']_vars

\* A deleteTask of an id that never named a task was answered 200 (it
\* removed the timer started against that id).
C13_Witness ==
  /\ resp.op = "delete_task" /\ resp.status = 200
  /\ nTask = 0
  /\ nEntry = 1 /\ timeentry = <<>>

\* C14: every item of summary() whose task_id names an existing task
\* carries that task's current title, and every other item (its task was
\* deleted, or its task_id never named a task) carries "Unknown Task".
C14_SummaryTitles ==
  LET items == report_summary_items(now)
  IN \A j \in DOMAIN items :
       LET owner == TaskOf(task, items[j].task_id)
       IN IF owner = {} THEN items[j].title = "Unknown Task"
          ELSE \A i \in owner : items[j].title = task[i].title

\* The report has an item of a retitled task, under the upper-case form of
\* its id, and an item of an id that never named a task.
C14_Witness ==
  LET items == report_summary_items(now)
  IN \E j, k \in DOMAIN items :
       /\ items[j].task_id = <<"A", "1">> /\ items[j].title = "U"
       /\ items[k].task_id = <<"z", "1">> /\ items[k].title = "Unknown Task"

\* An entry that a later start stopped: not running, with a start_time and
\* an end_time, without a duration_sec.
Superseded(e) ==
  /\ ~e.is_running
  /\ e.start_time # Null /\ e.end_time # Null
  /\ e.duration_sec = Null

C16_RunningWellFormed ==
  /\ \A i \in DOMAIN timeentry :
       timeentry[i].is_running
       => /\ timeentry[i].start_time # Null
          /\ timeentry[i].end_time = Null
          /\ timeentry[i].duration_sec = Null
  /\ ~(resp.op = "stop_timer" /\ resp.status = 500)

\* A stop was answered 200 for a task that also has a manual log, an entry
\* without start_time.
C16_Witness ==
  /\ resp.op = "stop_timer" /\ resp.status = 200
  /\ \E i, j \in DOMAIN timeentry :
       /\ timeentry[i].task_id = resp.id /\ timeentry[i].start_time = Null
       /\ timeentry[j].task_id = resp.id /\ timeentry[j].end_time = Some(now)
       /\ timeentry[j].duration_sec # Null

\* C17: the write of a stop that other requests interleave with changes
\* only the entry the stop read: that entry ends not running, with
\* duration_sec the whole seconds from its start_time to the clock reading
\* of the stop's write; every other entry, the one a concurrent start
\* inserted included, stays as it was.
C17_StopWritesWhatItRead ==
  [][resp'.op = "stop_timer" =>
     \A k \in DOMAIN reqs :
       stop_timer_2(k)
       => LET read == Val(reqs[k].running)
          IN /\ Len(timeentry') = Len(timeentry)
             /\ \A i \in DOMAIN timeentry :
                  IF timeentry[i]["_id"] = read["_id"]
                    THEN /\ ~timeentry'[i].is_running
                         /\ timeentry'[i].end_time = Some(now)
                         /\ timeentry'[i].duration_sec =
                              Some(FloorSec(now - Val(read.start_time)))
                    ELSE timeentry'[i] = timeentry[i]]_vars

\* A stop was answered while the entry of a start that ran between the
\* stop's read and its write is running: the entry the stop read has the
\* duration, the other is untouched.
C17_Witness ==
  /\ resp.op = "stop_timer" /\ resp.status = 200
  /\ Len(timeentry) = 2
  /\ timeentry[1].task_id = resp.id /\ timeentry[2].task_id = resp.id
  /\ ~timeentry[1].is_running /\ timeentry[1].duration_sec # Null
  /\ timeentry[1].end_time = Some(now)
  /\ timeentry[2].is_running /\ timeentry[2].duration_sec = Null
  /\ timeentry[2].end_time = Null

\* C18: an entry that is not running is not running after any step, and,
\* with requests run to completion, an entry with a duration_sec is in the
\* store unchanged after any start, stop, logManual, updateTask or
\* deleteTask.
C18_SettledEntries ==
  [][\A i \in DOMAIN timeentry :
       /\ ~timeentry[i].is_running
            => \A j \in DOMAIN timeentry' :
                 timeentry'[j]["_id"] = timeentry[i]["_id"]
                 => ~timeentry'[j].is_running
       /\ timeentry[i].duration_sec # Null
            => \E j \in DOMAIN timeentry' : timeentry'[j] = timeentry[i]]_vars

\* A start was answered for a task that has a stopped timer: the stopped
\* entry keeps its duration beside the new running one.
C18_Witness ==
  /\ resp.op = "start_timer" /\ resp.status = 200
  /\ Len(timeentry) = 2
  /\ timeentry[1].task_id = resp.id /\ timeentry[2].task_id = resp.id
  /\ ~timeentry[1].is_running
  /\ timeentry[1].start_time # Null /\ timeentry[1].duration_sec # Null
  /\ timeentry[2].is_running /\ timeentry[2].start_time = Some(now)

\* C19: in every state, the states that interleaved starts reach included,
\* summary() has at most one item per task_id, and the item's total_sec is
\* the task_id's recorded durations plus the elapsed seconds of all of its
\* running entries.
C19_OneItemPerTask ==
  LET items == report_summary_items(now)
  IN /\ \A j, k \in DOMAIN items :
          items[j].task_id = items[k].task_id => j = k
     /\ \A j \in DOMAIN items :
          items[j].total_sec = OwedSec(items[j].task_id, now)

\* Two entries of one task_id are running, each for a second, and the
\* report has one item, of two seconds.
C19_Witness ==
  LET items == report_summary_items(now)
  IN /\ Len(items) = 1 /\ items[1].total_sec = 2
     /\ Cardinality(RunningOf(timeentry, items[1].task_id)) = 2
     /\ \A i \in RunningOf(timeentry, items[1].task_id) :
          FloorSec(now - Val(timeentry[i].start_time)) = 1

\* What a report says: the pairs of a task_id and its total_sec.
TotalsOf(items) ==
  {<<items[j].task_id, items[j].total_sec>> : j \in DOMAIN items}

\* C20: a stop(T) of a task with exactly one running entry leaves the
\* total_sec that summary() reports at that clock reading as it was, for T
\* and for every other task_id.
C20_StopPreservesTotal ==
  [][(resp'.op = "stop_timer" /\ resp'.status = 200) =>
     \A id \in PathIds :
       (Cardinality(RunningOf(timeentry, id)) = 1 /\ stop_timer(id))
       => /\ \E x \in TotalsOf(report_summary_items(now)) : x[1] = id
          /\ TotalsOf(summary_items(timeentry', now))
               = TotalsOf(report_summary_items(now))]_vars

\* A timer that ran a second was stopped, beside an entry of another
\* task_id; the report gives the stopped task that second.
C20_Witness ==
  /\ resp.op = "stop_timer" /\ resp.status = 200
  /\ Len(timeentry) = 2
  /\ \E i, j \in DOMAIN timeentry :
       /\ timeentry[i].task_id = resp.id
       /\ timeentry[i].end_time = Some(now)
       /\ timeentry[i].duration_sec = Some(1)
       /\ timeentry[j].task_id # resp.id
       /\ timeentry[j].is_running
  /\ <<resp.id, 1>> \in TotalsOf(report_summary_items(now))

====
